---- MODULE Spec2Model ----
(***************************************************************************)
(* Model of src/translate.py: the line loop of translate_file, the closure  *)
(* flush_batch and the retry loop of translate_batch.                       *)
(*                                                                         *)
(* A line is a sequence of one-character strings, so that str.strip, the    *)
(* substring test for the fence marker, str.startswith and str.split are    *)
(* computed, not assumed.  The remote service is the environment: each call *)
(* either raises (a retriable error, a ValueError, another Exception) or    *)
(* returns a text.                                                          *)
(***************************************************************************)
EXTENDS Integers, Sequences, FiniteSets, TLC

\* ------------------------------------------------------------------ bounds
\* The batch budgets of the script (50 lines, 4000 characters), scaled down.
BATCH_MAX_LINES == 3
BATCH_MAX_CHARS == 7
\* Longest document explored.
MaxDocLen == 4

\* ------------------------------------------------------- program constants
RETRIES == 5
BASE_DELAY == 1

\* ------------------------------------------------------------------ strings
WS == {" ", "\n", "\t"}
\* The backquote character (the module's lexer takes no backquote in a string).
BQ == "~"
\* "```"
FENCE == <<BQ, BQ, BQ>>

RECURSIVE LStrip(_)
LStrip(s) == IF s = <<>> THEN <<>>
             ELSE IF Head(s) \in WS THEN LStrip(Tail(s)) ELSE s

RECURSIVE RStrip(_)
RStrip(s) == IF s = <<>> THEN <<>>
             ELSE IF s[Len(s)] \in WS THEN RStrip(SubSeq(s, 1, Len(s) - 1)) ELSE s

\* str.strip()
Strip(s) == RStrip(LStrip(s))

\* pat in s
Contains(s, pat) ==
    \E p \in 1..(Len(s) - Len(pat) + 1) : SubSeq(s, p, p + Len(pat) - 1) = pat

\* s.startswith(c), c one character
StartsWith(s, c) == Len(s) > 0 /\ s[1] = c

\* s.split("\n")
RECURSIVE SplitNL(_)
SplitNL(s) ==
    IF \A p \in 1..Len(s) : s[p] # "\n" THEN <<s>>
    ELSE LET p == CHOOSE q \in 1..Len(s) :
                      s[q] = "\n" /\ \A r \in 1..(q - 1) : s[r] # "\n"
         IN  <<SubSeq(s, 1, p - 1)>> \o SplitNL(SubSeq(s, p + 1, Len(s)))

\* sep.join(ss)
RECURSIVE Join(_, _)
Join(ss, sep) ==
    IF ss = <<>> THEN <<>>
    ELSE IF Len(ss) = 1 THEN ss[1]
    ELSE ss[1] \o sep \o Join(Tail(ss), sep)

NonEmpty(s) == s # <<>>

\* [p.strip() for p in content.split("\n") if p.strip()]
SplitParts(content) ==
    LET raw == SplitNL(content)
    IN  SelectSeq([p \in 1..Len(raw) |-> Strip(raw[p])], NonEmpty)

\* ---------------------------------------------------------- the documents
\* A line longer than the character budget on its own.
LongLine == [p \in 1..(BATCH_MAX_CHARS + 1) |-> "c"] \o <<"\n">>

ShortLine  == <<"a", "\n">>                  \* translatable
\* translatable, blanks around it; two of them do not fit one batch
PaddedLine == <<" ">> \o [p \in 1..(BATCH_MAX_CHARS - 3) |-> "b"] \o <<" ", "\n">>
HeadLine   == <<"#", "a", "\n">>             \* heading
LinkLine   == <<" ", "[", "a", "\n">>        \* link, indented
ImageLine  == <<"!", "\n">>                  \* image
BlankText  == <<" ", "\n">>                  \* blank
MarkerLine == <<"a", BQ, BQ, BQ, "\n">>      \* contains the fence marker

PoolA == {ShortLine, PaddedLine, HeadLine, BlankText, MarkerLine}
PoolB == {ShortLine, LongLine, MarkerLine}
PoolC == {ShortLine, LinkLine, ImageLine, MarkerLine}
Pools == {PoolA, PoolB, PoolC}

\* The documents explored: every document of up to MaxDocLen lines over one
\* of the pools.
Docs == UNION { [1..n -> P] : n \in 0..MaxDocLen, P \in Pools }

\* ------------------------------------------------------ the remote service
\* The service's translation of one submitted line, and a segment that
\* answers no submitted line.
Tr(s) == <<"z">> \o s
ExtraSeg == <<"z", "x">>

\* The k segments of a response to batch.
Segs(batch, k) ==
    [t \in 1..k |-> IF t <= Len(batch) THEN Tr(batch[t]) ELSE ExtraSeg]

\* The response text: the segments joined by a newline, or (padded) indented,
\* separated by an empty line and ended by a newline.
Response(batch, k, padded) ==
    IF padded
    THEN Join([t \in 1..k |-> <<" ">> \o Segs(batch, k)[t]], <<"\n", "\n">>) \o <<"\n">>
    ELSE Join(Segs(batch, k), <<"\n">>)


\* -------------------------------------------------------------- the state
VARIABLES
    lines,            \* read_file's result: the document
    append_original,  \* translate_file's parameter
    pc,               \* where translate_file is: "start", "loop", "call"
                      \* (translate_batch about to call the service), "ret"
                      \* (translate_batch returned), "done", "abort"
    i,                \* the line the for loop is at (1-based)
    result,           \* the output lines so far
    in_code_block,
    current_batch,    \* the pending batch: stripped lines
    batch_chars,
    batch_lines,
    cont,             \* what called flush_batch: "fence", "size", "struct", "end"
    attempt,          \* translate_batch's loop variable
    translations,     \* what translate_batch returned to flush_batch
    written,          \* write_file was called
    output,           \* the lines write_file wrote
    \* history, read by the properties only
    origin,           \* per line of result: the input line it stands for, and
                      \* whether it is that line passed through ("pass"), its
                      \* stripped original ("orig") or a returned segment ("trans")
    batch_src,        \* per line of current_batch: its index in lines
    seen_in_code,     \* per line read so far: in_code_block when it was classified
    log,              \* the remote calls and sleeps of the translate_batch call
                      \* in progress or just returned
    last_batch,       \* the batch, the result and the output of the latest
    last_trans,       \* flush_batch that merged
    last_out,
    sent,             \* the batches passed to translate_batch so far, in call order
    \* running translate_file again on what it wrote
    run,              \* 1, or 2 in the run over the first run's output
    prev_out          \* what the first run wrote

vars == <<lines, append_original, pc, i, result, in_code_block, current_batch,
          batch_chars, batch_lines, cont, attempt, translations, written,
          output, origin, batch_src, seen_in_code, log, last_batch,
          last_trans, last_out, sent, run, prev_out>>

driver  == <<i, result, in_code_block, current_batch, batch_chars, batch_lines,
             origin, batch_src, seen_in_code>>
callst  == <<attempt, translations, log, cont, sent>>
merged  == <<last_batch, last_trans, last_out>>
sink    == <<written, output>>
input   == <<lines, append_original, run, prev_out>>

Init ==
    /\ lines \in Docs
    /\ append_original \in BOOLEAN
    /\ pc = "start"
    /\ i = 1
    /\ result = <<>>
    /\ in_code_block = FALSE
    /\ current_batch = <<>>
    /\ batch_chars = 0
    /\ batch_lines = 0
    /\ cont = "none"
    /\ attempt = 0
    /\ translations = <<>>
    /\ written = FALSE
    /\ output = <<>>
    /\ origin = <<>>
    /\ batch_src = <<>>
    /\ seen_in_code = <<>>
    /\ log = <<>>
    /\ last_batch = <<>>
    /\ last_trans = <<>>
    /\ last_out = <<>>
    /\ sent = <<>>
    /\ run = 1
    /\ prev_out = <<>>

\* ------------------------------------------------------------ classification
\* is_translatable_line without its test for "["
is_translatable_no_link(s) ==
    ~ (StartsWith(s, "#") \/ StartsWith(s, "!"))

\* is_translatable_line without its test for "!"
is_translatable_no_image(s) ==
    ~ (StartsWith(s, "#") \/ StartsWith(s, "["))

is_translatable_line(s) ==
    ~ (StartsWith(s, "#") \/ StartsWith(s, "[") \/ StartsWith(s, "!"))

\* "```" in line
IsFenceLine(line) == Contains(line, FENCE)

\* a skip test that skips nothing
SkippedNever(stripped) == FALSE

\* if not stripped: continue
Skipped(stripped) == stripped = <<>>

\* a marker that always opens a fence
ToggleSet(in_code) == TRUE

\* in_code_block = not in_code_block
Toggle(in_code) == ~ in_code

\* a marker that never flushes
FlushOnFenceNever(in_code) == FALSE

\* if in_code_block: flush_batch()   (the value after the toggle)
FlushOnFence(in_code) == in_code

\* the size check without its test of the characters
OverflowLinesOnly(projected_lines, projected_chars) ==
    projected_lines > BATCH_MAX_LINES

\* (projected_lines > BATCH_MAX_LINES) or (projected_chars > BATCH_MAX_CHARS)
Overflow(projected_lines, projected_chars) ==
    projected_lines > BATCH_MAX_LINES \/ projected_chars > BATCH_MAX_CHARS

\* a pass-through that writes the stripped line
PassStripped(line) == Strip(line) \o <<"\n">>

\* result.append(line) of a line that is not batched
PassThrough(line) == line

Pass(j) == [src |-> j, kind |-> "pass"]

\* ------------------------------------------------------------- flush_batch
NL(s) == s \o <<"\n">>

Entry(text, j, kind) == [text |-> text, src |-> j, kind |-> kind]

\* for en, zh in zip(current_batch, translations): en + "\n", zh + "\n"
RECURSIVE ZipPairs(_, _, _)
ZipPairs(batch, src, trans) ==
    IF batch = <<>> \/ trans = <<>> THEN <<>>
    ELSE <<Entry(NL(Head(batch)), Head(src), "orig"),
           Entry(NL(Head(trans)), Head(src), "trans")>>
         \o ZipPairs(Tail(batch), Tail(src), Tail(trans))

\* the append merge without the originals that got no translation
MergeAppendPairsOnly(batch, src, trans) ==
    LET n == Len(batch)
        k == Len(trans)
    IN  ZipPairs(batch, src, trans)
        \o (IF k > n
            THEN [t \in 1..(k - n) |-> Entry(NL(trans[n + t]), src[n], "trans")]
            ELSE <<>>)

\* the append merge that takes the originals left over from the start of the batch
MergeAppendRestFromStart(batch, src, trans) ==
    LET n == Len(batch)
        k == Len(trans)
    IN  ZipPairs(batch, src, trans)
        \o (IF k < n
            THEN [t \in 1..(n - k) |-> Entry(NL(batch[t]), src[t], "orig")]
            ELSE IF k > n
            THEN [t \in 1..(k - n) |-> Entry(NL(trans[n + t]), src[n], "trans")]
            ELSE <<>>)

\* append_original=True: the pairs, then the originals left without a
\* translation, or the translations left without an original.
MergeAppend(batch, src, trans) ==
    LET n == Len(batch)
        k == Len(trans)
    IN  ZipPairs(batch, src, trans)
        \o (IF k < n
            THEN [t \in 1..(n - k) |-> Entry(NL(batch[k + t]), src[k + t], "orig")]
            ELSE IF k > n
            THEN [t \in 1..(k - n) |-> Entry(NL(trans[n + t]), src[n], "trans")]
            ELSE <<>>)

\* the overwrite merge that emits one line per original: the translation when
\* there is one, the original otherwise
MergeOverwritePerOriginal(batch, src, trans) ==
    [t \in 1..Len(batch) |->
        IF t <= Len(trans)
        THEN Entry(NL(trans[t]), src[t], "trans")
        ELSE Entry(NL(batch[t]), src[t], "orig")]

\* the overwrite merge that keeps the originals as the append merge does
MergeOverwriteAsAppend(batch, src, trans) == MergeAppend(batch, src, trans)

\* append_original=False: for zh in translations: zh + "\n"
MergeOverwrite(batch, src, trans) ==
    LET n == Len(batch)
    IN  [t \in 1..Len(trans) |->
            Entry(NL(trans[t]), src[IF t <= n THEN t ELSE n], "trans")]

Texts(entries) == [t \in 1..Len(entries) |-> entries[t].text]
Tags(entries)  == [t \in 1..Len(entries) |-> [src |-> entries[t].src, kind |-> entries[t].kind]]

\* flush_batch without its last line
flush_keep(batch) == batch

\* current_batch = [] at the end of flush_batch
flush_reset(batch) == <<>>

\* ----------------------------------------------------------- translate_batch
\* a delay that grows linearly
DelayLinear(a) == BASE_DELAY * (2 * a)

\* delay = base_delay * (2 ** attempt)
Delay(a) == BASE_DELAY * (2 ^ a)

\* if attempt < retries - 1: time.sleep(delay)
ShouldSleep(a) == a < RETRIES - 1

\* for attempt in range(retries): is attempt a the last one
LastAttempt(a) == a + 1 >= RETRIES

\* a mismatch handler that returns the empty list
MismatchReturnEmpty(parts) == <<>>

\* except ValueError: return parts, after line 78 raised
MismatchReturn(parts) == parts

\* An entry of log: a remote call with how it ended (and, for a response, how
\* many segments the service put in it), or a sleep of d seconds.
CallEv(out, k) == [ev |-> "call", out |-> out, d |-> 0, k |-> k]
SleepEv(d)     == [ev |-> "sleep", out |-> "", d |-> d, k |-> 0]

\* ------------------------------------------------------------ translate_file
\* What follows a flush_batch() call made for reason c, with res and org the
\* output after it and cb, cs the pending batch after it.
Continue(c, res, org, cb, cs) ==
    IF c = "end"
    THEN /\ pc' = "done"
         /\ written' = TRUE
         /\ output' = res
         /\ result' = res
         /\ origin' = org
         /\ current_batch' = cb
         /\ batch_src' = cs
         /\ UNCHANGED <<i, batch_chars, batch_lines>>
    ELSE IF c = "size"
    THEN /\ pc' = "loop"
         /\ i' = i + 1
         /\ result' = res
         /\ origin' = org
         /\ current_batch' = Append(cb, Strip(lines[i]))
         /\ batch_src' = Append(cs, i)
         /\ batch_chars' = 0 + (Len(Strip(lines[i])) + 1)
         /\ batch_lines' = 0 + 1
         /\ UNCHANGED sink
    ELSE /\ pc' = "loop"
         /\ i' = i + 1
         /\ result' = Append(res, PassThrough(lines[i]))
         /\ origin' = Append(org, Pass(i))
         /\ current_batch' = cb
         /\ batch_src' = cs
         /\ UNCHANGED <<batch_chars, batch_lines>>
         /\ UNCHANGED sink

\* a flush_batch() that empties the batch without translating it
FlushDrop(c) ==
    /\ Continue(c, result, origin, <<>>, <<>>)
    /\ UNCHANGED callst

\* flush_batch() called for reason c: nothing to do on an empty batch,
\* otherwise translate_batch(current_batch) starts (its own test for an empty
\* list, lines 45-46, is then never taken).
Flush(c) ==
    IF current_batch = <<>>
    THEN /\ Continue(c, result, origin, current_batch, batch_src)
         /\ UNCHANGED callst
    ELSE /\ pc' = "call"
         /\ cont' = c
         /\ attempt' = 0
         /\ log' = <<>>
         /\ translations' = <<>>
         /\ sent' = Append(sent, current_batch)
         /\ UNCHANGED <<i, result, origin, current_batch, batch_src,
                        batch_chars, batch_lines>>
         /\ UNCHANGED sink

\* lines = read_file(...); if not lines: return
ReadFile ==
    /\ pc = "start"
    /\ pc' = IF lines = <<>> THEN "done" ELSE "loop"
    /\ UNCHANGED <<driver, callst, merged, sink, input>>

AtLine == pc = "loop" /\ i <= Len(lines)

\* if "```" in line
FenceLine ==
    /\ AtLine
    /\ IsFenceLine(lines[i])
    /\ in_code_block' = Toggle(in_code_block)
    /\ seen_in_code' = Append(seen_in_code, in_code_block)
    /\ IF FlushOnFence(in_code_block')
       THEN Flush("fence")
       ELSE /\ Continue("fence", result, origin, current_batch, batch_src)
            /\ UNCHANGED callst
    /\ UNCHANGED <<merged, input>>

\* if in_code_block
CodeLine ==
    /\ AtLine
    /\ ~ IsFenceLine(lines[i])
    /\ in_code_block
    /\ seen_in_code' = Append(seen_in_code, in_code_block)
    /\ Continue("code", result, origin, current_batch, batch_src)
    /\ UNCHANGED <<in_code_block, callst, merged, input>>

\* if not stripped: continue
BlankLine ==
    /\ AtLine
    /\ ~ IsFenceLine(lines[i])
    /\ ~ in_code_block
    /\ Skipped(Strip(lines[i]))
    /\ seen_in_code' = Append(seen_in_code, in_code_block)
    /\ i' = i + 1
    /\ UNCHANGED <<pc, result, origin, in_code_block, current_batch, batch_src,
                   batch_chars, batch_lines, callst, merged, sink, input>>

\* if is_translatable_line(stripped)
TranslatableLine ==
    /\ AtLine
    /\ ~ IsFenceLine(lines[i])
    /\ ~ in_code_block
    /\ ~ Skipped(Strip(lines[i]))
    /\ is_translatable_line(Strip(lines[i]))
    /\ seen_in_code' = Append(seen_in_code, in_code_block)
    /\ IF Overflow(batch_lines + 1, batch_chars + Len(Strip(lines[i])))
       THEN Flush("size")
       ELSE /\ current_batch' = Append(current_batch, Strip(lines[i]))
            /\ batch_src' = Append(batch_src, i)
            /\ batch_chars' = batch_chars + (Len(Strip(lines[i])) + 1)
            /\ batch_lines' = batch_lines + 1
            /\ i' = i + 1
            /\ UNCHANGED <<pc, result, origin, callst, sink>>
    /\ UNCHANGED <<in_code_block, merged, input>>

\* else: flush_batch(); result.append(line)
StructuralLine ==
    /\ AtLine
    /\ ~ IsFenceLine(lines[i])
    /\ ~ in_code_block
    /\ ~ Skipped(Strip(lines[i]))
    /\ ~ is_translatable_line(Strip(lines[i]))
    /\ seen_in_code' = Append(seen_in_code, in_code_block)
    /\ Flush("struct")
    /\ UNCHANGED <<in_code_block, merged, input>>

\* after the loop: flush_batch(); write_file(output_file_path, result)
EndOfFile ==
    /\ pc = "loop"
    /\ i > Len(lines)
    /\ Flush("end")
    /\ UNCHANGED <<in_code_block, seen_in_code, merged, input>>

\* ------------------------------------------------- the calls of the service
AtCall == pc = "call"

\* The call returns a text of k segments; line 77 compares the count of parts.
CallResponse ==
    /\ AtCall
    /\ \E k \in 0..(Len(current_batch) + 1), padded \in BOOLEAN :
          LET content == Response(current_batch, k, padded)
              parts   == SplitParts(content)
          IN  /\ log' = Append(log, CallEv("response", k))
              /\ translations' = IF Len(parts) # Len(current_batch)
                                 THEN MismatchReturn(parts)
                                 ELSE parts
    /\ pc' = "ret"
    /\ UNCHANGED <<attempt, cont, sent, driver, merged, sink, input>>

\* The call raises APIConnectionError, APIError or RateLimitError.
CallTransient ==
    /\ AtCall
    /\ log' = Append(log, CallEv("transient", 0))
              \o (IF ShouldSleep(attempt) THEN <<SleepEv(Delay(attempt))>> ELSE <<>>)
    /\ IF LastAttempt(attempt)
       THEN /\ pc' = "ret"
            /\ translations' = <<>>
            /\ UNCHANGED attempt
       ELSE /\ attempt' = attempt + 1
            /\ UNCHANGED <<pc, translations>>
    /\ UNCHANGED <<cont, sent, driver, merged, sink, input>>

\* The call raises an Exception that is neither retriable nor a ValueError.
CallFatal ==
    /\ AtCall
    /\ log' = Append(log, CallEv("fatal", 0))
    /\ translations' = <<>>
    /\ pc' = "ret"
    /\ UNCHANGED <<attempt, cont, sent, driver, merged, sink, input>>

\* The call itself raises a ValueError (a UnicodeError, say): the handler of
\* line 88 runs "return parts" with parts not yet bound in this invocation, and
\* the UnboundLocalError leaves translate_batch, flush_batch and translate_file.
CallValueError ==
    /\ AtCall
    /\ log' = Append(log, CallEv("valueerr", 0))
    /\ pc' = "abort"
    /\ UNCHANGED <<attempt, translations, cont, sent, driver, merged, sink, input>>

\* translate_batch has returned: the rest of flush_batch, then what follows
\* the flush_batch() call in translate_file.
FlushReturn ==
    /\ pc = "ret"
    /\ LET entries == IF append_original
                      THEN MergeAppend(current_batch, batch_src, translations)
                      ELSE MergeOverwrite(current_batch, batch_src, translations)
           cb      == flush_reset(current_batch)
       IN  /\ last_batch' = current_batch
           /\ last_trans' = translations
           /\ last_out' = Texts(entries)
           /\ Continue(cont, result \o Texts(entries), origin \o Tags(entries),
                       cb, IF cb = <<>> THEN <<>> ELSE batch_src)
    /\ attempt' = 0
    /\ translations' = <<>>
    /\ log' = <<>>
    /\ cont' = "none"
    /\ UNCHANGED <<in_code_block, seen_in_code, sent, input>>

Next ==
    \/ ReadFile
    \/ FenceLine
    \/ CodeLine
    \/ BlankLine
    \/ TranslatableLine
    \/ StructuralLine
    \/ EndOfFile
    \/ CallResponse
    \/ CallTransient
    \/ CallFatal
    \/ CallValueError
    \/ FlushReturn

Spec == Init /\ [][Next]_vars

\* ------------------------------------- translate_file run on its own output
\* write_file: the strings written one after the other
RECURSIVE FileText(_)
FileText(content) ==
    IF content = <<>> THEN <<>> ELSE Head(content) \o FileText(Tail(content))

\* f.readlines(): the text cut after each newline
RECURSIVE ReadLinesFrom(_, _)
ReadLinesFrom(text, cur) ==
    IF text = <<>> THEN (IF cur = <<>> THEN <<>> ELSE <<cur>>)
    ELSE IF Head(text) = "\n"
    THEN <<Append(cur, "\n")>> \o ReadLinesFrom(Tail(text), <<>>)
    ELSE ReadLinesFrom(Tail(text), Append(cur, Head(text)))

ReadLines(text) == ReadLinesFrom(text, <<>>)

\* A service that answers with the submitted lines themselves.
CallNoop ==
    /\ AtCall
    /\ LET content == Join(current_batch, <<"\n">>)
           parts   == SplitParts(content)
       IN  /\ log' = Append(log, CallEv("response", Len(parts)))
           /\ translations' = IF Len(parts) # Len(current_batch)
                              THEN MismatchReturn(parts)
                              ELSE parts
    /\ pc' = "ret"
    /\ UNCHANGED <<attempt, cont, sent, driver, merged, sink, input>>

\* translate_file called again, in overwrite mode, on the file the first run
\* wrote.
Rerun ==
    /\ pc = "done"
    /\ run = 1
    /\ written
    /\ ~ append_original
    /\ lines' = ReadLines(FileText(output))
    /\ prev_out' = output
    /\ run' = 2
    /\ pc' = "start"
    /\ i' = 1
    /\ result' = <<>>
    /\ in_code_block' = FALSE
    /\ current_batch' = <<>>
    /\ batch_chars' = 0
    /\ batch_lines' = 0
    /\ written' = FALSE
    /\ output' = <<>>
    /\ origin' = <<>>
    /\ batch_src' = <<>>
    /\ seen_in_code' = <<>>
    /\ last_batch' = <<>>
    /\ last_trans' = <<>>
    /\ last_out' = <<>>
    /\ sent' = <<>>
    /\ UNCHANGED <<append_original, attempt, translations, log, cont>>

InitIdem == Init /\ append_original = FALSE

NextIdem ==
    \/ ReadFile
    \/ FenceLine
    \/ CodeLine
    \/ BlankLine
    \/ TranslatableLine
    \/ StructuralLine
    \/ EndOfFile
    \/ CallNoop
    \/ FlushReturn
    \/ Rerun

SpecIdem == InitIdem /\ [][NextIdem]_vars

\* ===================================================================
\* The properties
\* ===================================================================

\* What the document alone says of its line j.
MarkersBefore(j) == Cardinality({q \in 1..(j - 1) : Contains(lines[q], FENCE)})
IsMarker(j)      == Contains(lines[j], FENCE)
\* inside a fence, the marker lines included
InsideFence(j)   == IsMarker(j) \/ MarkersBefore(j) % 2 = 1
HasPrefix(j)     == LET t == Strip(lines[j])
                    IN  t # <<>> /\ t[1] \in {"#", "[", "!"}
IsBlank(j)       == Strip(lines[j]) = <<>>
\* Structural: outside a fence, blank or starting with '#', '[' or '!'
Structural(j)    == ~ InsideFence(j) /\ (IsBlank(j) \/ HasPrefix(j))

\* The places of result (or of the written output, the same lines) that hold
\* line j passed through.
PassPlaces(j) ==
    {p \in 1..Len(origin) : origin[p].src = j /\ origin[p].kind = "pass"}

\* Line j is in out exactly once as a pass-through, unchanged.
PassedOnce(out, j) ==
    /\ Cardinality(PassPlaces(j)) = 1
    /\ \A p \in PassPlaces(j) : p <= Len(out) /\ out[p] = lines[j]

\* The pass-through lines among js keep their order.
PassedInOrder(js) ==
    \A j1, j2 \in js : j1 < j2 =>
        \A p1 \in PassPlaces(j1), p2 \in PassPlaces(j2) : p1 < p2

\* C1 as stated: once translate_file has written its output, every line that
\* is Structural (blank lines included) or inside a fence is in the output
\* exactly once, unchanged, and these lines keep their order.
C1_PassThroughAll ==
    (pc = "done" /\ written) =>
        LET js == {j \in 1..Len(lines) : Structural(j) \/ InsideFence(j)}
        IN  /\ \A j \in js : PassedOnce(output, j)
            /\ PassedInOrder(js)

\* C1, amended: every line already processed that is inside a fence (marker
\* lines included) or is a non-blank line outside a fence starting with '#',
\* '[' or '!' is in result exactly once, unchanged, in document order; a blank
\* line outside a fence is not in result; and the output written is result.
C1_PassThrough ==
    LET kept == [j \in 1..Len(lines) |->
                    InsideFence(j) \/ (Structural(j) /\ ~ IsBlank(j))]
    IN  /\ Len(origin) = Len(result)
        /\ \A p \in 1..Len(origin) :
              origin[p].kind = "pass" =>
                  LET j == origin[p].src
                  IN  /\ result[p] = lines[j]
                      /\ kept[j]
                      /\ \A q \in (p + 1)..Len(origin) :
                            origin[q].kind = "pass" => j < origin[q].src
        /\ \A j \in 1..(i - 1) :
              kept[j] => \E p \in 1..Len(origin) : origin[p] = Pass(j)
        /\ written => output = result

\* A finished run over a document with a prefixed line outside a fence, a
\* line of code inside one, and a blank line outside.
C1_Witness ==
    /\ pc = "done"
    /\ written
    /\ \E j \in 1..Len(lines) : Structural(j) /\ ~ IsBlank(j)
    /\ \E j \in 1..Len(lines) : InsideFence(j) /\ ~ IsMarker(j)
    /\ \E j \in 1..Len(lines) : Structural(j) /\ IsBlank(j)

\* the stripped characters of a batch
RECURSIVE SumLen(_)
SumLen(ss) == IF ss = <<>> THEN 0 ELSE Len(Head(ss)) + SumLen(Tail(ss))

\* C2 as stated: every batch passed to translate_batch has at most
\* BATCH_MAX_LINES lines and at most BATCH_MAX_CHARS stripped characters.
C2_BatchSizeAll ==
    pc = "call" =>
        /\ Len(current_batch) <= BATCH_MAX_LINES
        /\ SumLen(current_batch) <= BATCH_MAX_CHARS

\* C2, amended: every batch passed to translate_batch has at most
\* BATCH_MAX_LINES lines, and at most BATCH_MAX_CHARS stripped characters
\* unless it is a single line that is itself longer than BATCH_MAX_CHARS.
C2_BatchSize ==
    pc = "call" =>
        /\ Len(current_batch) <= BATCH_MAX_LINES
        /\ \/ SumLen(current_batch) <= BATCH_MAX_CHARS
           \/ /\ Len(current_batch) = 1
              /\ Len(current_batch[1]) > BATCH_MAX_CHARS

\* A batch of BATCH_MAX_LINES lines closed by the size check.
C2_Witness ==
    /\ pc = "call"
    /\ cont = "size"
    /\ Len(current_batch) = BATCH_MAX_LINES

\* C3: the lines of result stand for input lines in document order: no line
\* of result stands for an earlier input line than a line before it, no
\* original or pass-through line is there twice, a translation never comes
\* before its original, and every line of the pending batch (also while it
\* is being translated) comes later in the document than all of result.
C3_Order ==
    /\ Len(origin) = Len(result)
    /\ \A p, q \in 1..Len(origin) : p < q =>
          /\ origin[p].src <= origin[q].src
          /\ origin[q].kind \in {"pass", "orig"} => origin[p].src < origin[q].src
    /\ \A p \in 1..Len(origin), q \in 1..Len(batch_src) : origin[p].src < batch_src[q]
    /\ \A p, q \in 1..Len(batch_src) : p < q => batch_src[p] < batch_src[q]

\* A finished run where a pass-through line lies between the translations
\* of two batches.
C3_Witness ==
    /\ pc = "done"
    /\ \E p, q, r \in 1..Len(origin) :
          /\ p < q /\ q < r
          /\ origin[p].kind = "trans"
          /\ origin[q].kind = "pass"
          /\ origin[r].kind = "trans"

\* ------------------------------------------------- translate_batch's log
IsCall(e)  == e.ev = "call"
IsSleep(e) == e.ev = "sleep"
Calls  == SelectSeq(log, IsCall)
Sleeps == SelectSeq(log, IsSleep)
\* the first m calls all failed with a retriable error
AllTransient(m) == \A t \in 1..m : Calls[t].out = "transient"
LastEv == log[Len(log)]

\* C4: when translate_batch has returned after N < RETRIES retriable failures
\* in a row followed by a response of the right shape, its log is N times
\* (call, sleep) and one more call, the t-th sleep lasting
\* BASE_DELAY * 2^(t-1), and it returned the segments of the last response;
\* and it never returns after fewer than RETRIES calls that all failed with
\* a retriable error.
C4_RetryBackoff ==
    /\ (pc = "ret" /\ Len(Calls) >= 1) =>
          LET N == Len(Calls) - 1
          IN  ( /\ N < RETRIES
                /\ AllTransient(N)
                /\ Calls[N + 1].out = "response"
                /\ Calls[N + 1].k = Len(current_batch) )
              => /\ Len(log) = 2 * N + 1
                 /\ \A t \in 1..N :
                       /\ log[2 * t - 1].ev = "call"
                       /\ log[2 * t].ev = "sleep"
                       /\ log[2 * t].d = BASE_DELAY * (2 ^ (t - 1))
                 /\ log[2 * N + 1].ev = "call"
                 /\ translations = Segs(current_batch, Len(current_batch))
    /\ (pc = "ret" /\ AllTransient(Len(Calls))) => Len(Calls) >= RETRIES

\* translate_batch returned the translations of its RETRIES-th call, after
\* RETRIES - 1 retriable failures.
C4_Witness ==
    /\ pc = "ret"
    /\ Len(Calls) = RETRIES
    /\ AllTransient(RETRIES - 1)
    /\ Calls[RETRIES].out = "response"
    /\ Calls[RETRIES].k = Len(current_batch)
    /\ translations = Segs(current_batch, Len(current_batch))

\* C5: translate_batch makes at most RETRIES calls per batch; when all its
\* calls failed with a retriable error it has made RETRIES calls, slept
\* RETRIES - 1 times, not after the last call, and returns the empty
\* sequence; and a call that fails with an error that is neither retriable
\* nor the shape check is its last call, is followed by no sleep, and makes
\* it return the empty sequence.
C5_ExhaustionAndFatal ==
    /\ Len(Calls) <= RETRIES
    /\ pc = "call" => attempt < RETRIES
    /\ (pc \in {"ret", "abort"} /\ AllTransient(Len(Calls))) =>
          /\ pc = "ret"
          /\ translations = <<>>
          /\ Len(Calls) = RETRIES
          /\ Len(Sleeps) = RETRIES - 1
          /\ LastEv.ev = "call"
    /\ \A t \in 1..Len(log) :
          (log[t].ev = "call" /\ log[t].out \in {"fatal", "valueerr"}) =>
              /\ t = Len(log)
              /\ pc = "ret"
              /\ translations = <<>>

\* C6: a response whose count of segments differs from the batch's count of
\* lines is the last entry of the log (no call and no sleep follows it), on
\* whichever attempt it came, and translate_batch has returned its segments.
C6_MismatchNotRetried ==
    \A t \in 1..Len(log) :
        (log[t].ev = "call" /\ log[t].out = "response" /\ log[t].k # Len(current_batch)) =>
            /\ t = Len(log)
            /\ pc = "ret"
            /\ translations = Segs(current_batch, log[t].k)
            /\ Len(translations) = log[t].k

\* A mismatched, non-empty response returned on a retry.
C6_Witness ==
    /\ pc = "ret"
    /\ Len(Calls) >= 2
    /\ LastEv.ev = "call"
    /\ LastEv.out = "response"
    /\ LastEv.k # Len(current_batch)
    /\ LastEv.k >= 1
    /\ translations # <<>>

\* the batch's original lines, as flush_batch writes them
Originals(batch) == [t \in 1..Len(batch) |-> NL(batch[t])]

\* a flush_batch has merged
Merged == last_batch # <<>>

\* C7 as stated: append mode, a batch whose translation failed in any way
\* (the result has not one segment per line): the output for the batch is
\* its original lines only.
C7_AnyFailureOriginalsOnly ==
    (append_original /\ Merged /\ Len(last_trans) # Len(last_batch)) =>
        last_out = Originals(last_batch)

\* C7, amended: translate_batch returns the empty sequence when its retries
\* are exhausted or a call raised an exception caught as fatal; in append
\* mode a batch whose result is the empty sequence is output as its original
\* lines only; a mismatched result with at least one segment is not: the
\* first original is followed by the first returned segment.
C7_EmptyResultOriginalsOnly ==
    /\ (pc = "ret" /\ LastEv.out \in {"transient", "fatal"}) => translations = <<>>
    /\ (append_original /\ Merged /\ last_trans = <<>>) =>
          last_out = Originals(last_batch)
    /\ (append_original /\ Merged /\ last_trans # <<>>
          /\ Len(last_trans) # Len(last_batch)) =>
          /\ last_out # Originals(last_batch)
          /\ last_out[1] = NL(last_batch[1])
          /\ last_out[2] = NL(last_trans[1])

\* A batch of several lines merged in append mode with an empty result.
C7_Witness ==
    /\ append_original
    /\ Len(last_batch) >= 2
    /\ last_trans = <<>>
    /\ last_out = Originals(last_batch)

Min(a, b) == IF a <= b THEN a ELSE b

\* C8: append mode, a batch of n lines merged with a result of k segments:
\* the output for the batch has n + k lines; for t <= min(n, k) the original
\* t is followed at once by segment t; when k < n the originals k+1..n
\* follow; when k > n the segments n+1..k follow.
C8_AppendMerge ==
    (append_original /\ Merged) =>
        LET n == Len(last_batch)
            k == Len(last_trans)
            m == Min(n, k)
        IN  /\ Len(last_out) = n + k
            /\ \A t \in 1..m :
                  /\ last_out[2 * t - 1] = NL(last_batch[t])
                  /\ last_out[2 * t] = NL(last_trans[t])
            /\ \A t \in (m + 1)..n : last_out[m + t] = NL(last_batch[t])
            /\ \A t \in (m + 1)..k : last_out[m + t] = NL(last_trans[t])

\* A batch of 3 lines merged in append mode with 2 returned segments.
C8_Witness ==
    /\ append_original
    /\ Len(last_batch) = 3
    /\ Len(last_trans) = 2
    /\ Len(last_out) = 5
    /\ last_out[5] = NL(last_batch[3])

\* C9: translate_file is never aborted by the outcome of a remote call, and
\* when it ends on a document that is not empty it has processed every
\* line, flushed the last batch and written the output.
C9_NeverAborts ==
    /\ pc # "abort"
    /\ (pc = "done" /\ lines # <<>>) =>
          /\ i = Len(lines) + 1
          /\ current_batch = <<>>
          /\ written
          /\ output = result

\* C10: every line of the pending batch (so of every batch passed to
\* translate_batch) is the stripped text of an input line that was read with
\* in_code_block false, does not contain the fence marker, is not blank,
\* does not start with '#', '[' or '!', and does not lie between an opening
\* marker and its closing marker.
C10_NoCodeBatched ==
    /\ Len(batch_src) = Len(current_batch)
    /\ \A q \in 1..Len(current_batch) :
          LET j == batch_src[q]
          IN  /\ j \in 1..Len(seen_in_code)
              /\ seen_in_code[j] = FALSE
              /\ ~ Contains(lines[j], FENCE)
              /\ ~ IsBlank(j)
              /\ ~ HasPrefix(j)
              /\ MarkersBefore(j) % 2 = 0
              /\ current_batch[q] = Strip(lines[j])

\* A batch is passed to translate_batch after a fenced block with a line that
\* would be translatable outside a fence, and that line was passed through.
C10_Witness ==
    /\ pc = "call"
    /\ \E j \in 1..(i - 1) :
          /\ InsideFence(j)
          /\ ~ IsMarker(j)
          /\ ~ IsBlank(j)
          /\ ~ HasPrefix(j)
          /\ PassPlaces(j) # {}
          /\ j < batch_src[1]

\* --------------------------------------------------------------------- C11
\* C11 as stated: with the no-op translator and append_original=False, the
\* second run, made on the document D1 the first run wrote, writes a document
\* equal to D1.
C11_Idempotent ==
    (run = 2 /\ pc = "done")
        => (written /\ FileText(output) = FileText(prev_out))

\* C11, amended: the second run writes a document equal to D1 whenever D1 has
\* at least one line, and writes nothing at all when D1 is empty.
C11_IdempotentNonEmpty ==
    (run = 2 /\ pc = "done")
        => IF prev_out = <<>>
           THEN ~ written
           ELSE written /\ output = prev_out
                        /\ FileText(output) = FileText(prev_out)

\* The second run has ended on a D1 that holds a line the first run got from
\* the translator, a line it passed through and that differs from D.
C11_Witness ==
    /\ run = 2
    /\ pc = "done"
    /\ written
    /\ sent # <<>>
    /\ Len(prev_out) >= 3
    /\ \E t \in 1..Len(origin) : origin[t].kind = "pass"
    /\ \E t \in 1..Len(prev_out) : Head(prev_out[t]) = "b"

\* --------------------------------------------------------------------- C12
\* C12: under append_original=False the output of a flushed batch is exactly
\* the returned segments, each followed by a newline, in order: as many lines
\* as segments (none when the result is empty, fewer or more than the
\* originals when it is mismatched), and no line of the output comes from an
\* original of a batch.
C12_OverwriteOnlyTranslations ==
    ~ append_original =>
        /\ \A t \in 1..Len(origin) : origin[t].kind # "orig"
        /\ Merged =>
              /\ Len(last_out) = Len(last_trans)
              /\ \A t \in 1..Len(last_out) : last_out[t] = NL(last_trans[t])
              /\ \A t \in 1..Len(last_out), u \in 1..Len(last_batch) :
                     last_out[t] # NL(last_batch[u])
              /\ (last_trans = <<>> => last_out = <<>>)

\* An overwrite merge of a three-line batch answered by two segments.
C12_Witness ==
    /\ ~ append_original
    /\ Merged
    /\ Len(last_batch) = 3
    /\ Len(last_trans) = 2
    /\ Len(last_out) = 2
    /\ Len(result) >= 2

\* --------------------------------------------------------------------- C13
\* The characters a batch counts for: each line's stripped length plus one.
RECURSIVE BatchChars(_)
BatchChars(batch) ==
    IF batch = <<>> THEN 0 ELSE Len(Head(batch)) + 1 + BatchChars(Tail(batch))

\* C13: whenever the pending batch is flushed because of the projected size
\* check, the lines it holds together with the offered line lines[i] would
\* exceed BATCH_MAX_LINES lines or, joined by newlines, BATCH_MAX_CHARS
\* characters.
C13_SizeFlushOnlyFull ==
    (pc \in {"call", "ret"} /\ cont = "size") =>
        \/ Len(current_batch) + 1 > BATCH_MAX_LINES
        \/ BatchChars(current_batch) + Len(Strip(lines[i])) > BATCH_MAX_CHARS

\* --------------------------------------------------------------------- C14
\* C14: at the start of every iteration of the line loop, batch_lines is the
\* number of lines of current_batch and batch_chars the sum over current_batch
\* of (stripped length + 1); both are 0 when current_batch is empty.
C14_CountersTrackBatch ==
    (pc = "loop" /\ i <= Len(lines)) =>
        /\ batch_lines = Len(current_batch)
        /\ batch_chars = BatchChars(current_batch)
        /\ (current_batch = <<>> => batch_lines = 0 /\ batch_chars = 0)

\* --------------------------------------------------------------------- C15
\* The place in the output of the marker line j, 0 when it has none.
PlaceOf(j) ==
    IF \E t \in 1..Len(origin) : origin[t] = Pass(j)
    THEN CHOOSE t \in 1..Len(origin) : origin[t] = Pass(j)
    ELSE 0

FenceAfter(j) ==
    IF j < Len(seen_in_code) THEN seen_in_code[j + 1] ELSE in_code_block

\* C16: in_code_block is false before the first line, changes on a line
\* exactly when the line holds the marker, and so is true after a prefix
\* exactly when the prefix holds an odd number of marker lines; two markers in
\* a row restore the value; with an odd number of markers in the document, a
\* line after the last marker is read with in_code_block true, is never
\* batched and, once handled, is in the output (the one written at the end)
\* once, unchanged.
C16_FenceToggle ==
    LET n  == Len(seen_in_code)
        mk == [j \in 1..Len(lines) |-> Contains(lines[j], FENCE)]
        cnt[j \in 0..Len(lines)] ==
            IF j = 0 THEN 0 ELSE cnt[j - 1] + (IF mk[j] THEN 1 ELSE 0)
        odd == cnt[Len(lines)] % 2 = 1
        \* j lies after the last marker of a document with an odd number
        tail(j) == odd /\ cnt[j - 1] = cnt[Len(lines)]
    IN  /\ (n = 0 => ~ in_code_block)
        /\ (n >= 1 => ~ seen_in_code[1])
        /\ \A j \in 1..n : (FenceAfter(j) # seen_in_code[j]) <=> mk[j]
        /\ in_code_block <=> (cnt[n] % 2 = 1)
        /\ \A j \in 1..(n - 1) :
              (mk[j] /\ mk[j + 1]) => FenceAfter(j + 1) = seen_in_code[j]
        /\ \A u \in 1..Len(batch_src) : ~ tail(batch_src[u])
        /\ \A j \in 1..n :
              tail(j) => /\ seen_in_code[j]
                         /\ (j < i) => PassedOnce(result, j)
        /\ (pc = "done" /\ written) => (n = Len(lines) /\ output = result)

\* A written document with three markers, the first two in a row, and a line
\* that looks translatable after the third.
C16_Witness ==
    /\ pc = "done"
    /\ written
    /\ in_code_block
    /\ Len(lines) = 4
    /\ IsFenceLine(lines[1])
    /\ IsFenceLine(lines[2])
    /\ IsFenceLine(lines[3])
    /\ lines[4] = ShortLine
    /\ output[4] = ShortLine

\* --------------------------------------------------------------------- C17
\* Line j has been read outside a fence, is not a marker line, and its
\* stripped text starts with "#", "[" or "!".
ReadAsStructural(j) ==
    /\ j <= Len(seen_in_code)
    /\ ~ seen_in_code[j]
    /\ ~ IsFenceLine(lines[j])
    /\ HasPrefix(j)

\* C17: while the flush made by a structural line read outside a fence runs,
\* the line is not yet in the output; once the line has been handled it is in
\* the output unchanged, after everything that came from the lines before it
\* and before everything that comes from the lines after it; and no batch
\* ever holds a line from before it together with a line from after it.
C17_StructuralClosesBatch ==
    /\ (pc \in {"call", "ret"} /\ cont = "struct") =>
          /\ ReadAsStructural(i)
          /\ PlaceOf(i) = 0
    /\ \A j \in 1..Len(seen_in_code) :
          ReadAsStructural(j) =>
              /\ (j < i) => PlaceOf(j) # 0
              /\ (PlaceOf(j) # 0) =>
                    /\ result[PlaceOf(j)] = lines[j]
                    /\ \A t \in 1..Len(origin) :
                           (t < PlaceOf(j)) <=> (origin[t].src < j)
                    /\ \A u \in 1..Len(batch_src) : batch_src[u] > j
              /\ (PlaceOf(j) = 0) =>
                    \A u \in 1..Len(batch_src) : batch_src[u] < j

\* A structural line is in the output right after the translation of the line
\* before it, and the line after it is pending in a batch of its own.
C17_Witness ==
    \E j \in 2..Len(seen_in_code) :
        /\ ReadAsStructural(j)
        /\ PlaceOf(j) > 1
        /\ origin[PlaceOf(j) - 1].kind = "trans"
        /\ origin[PlaceOf(j) - 1].src = j - 1
        /\ batch_src = <<j + 1>>
        /\ pc = "loop"

\* --------------------------------------------------------------------- C18
\* C18: the step that reads a line whose stripped text is empty, outside a
\* fence, moves to the next line and changes nothing else: the output, the
\* pending batch, the budget counters and the fence state stay as they are and
\* translate_batch is not called; inside a fence, the step appends the line
\* unchanged to the output and leaves the batch, the counters and the fence
\* state as they are.
C18_BlankLinePolicy ==
    [][ (pc = "loop" /\ i <= Len(lines) /\ Strip(lines[i]) = <<>>) =>
            /\ pc' = "loop"
            /\ i' = i + 1
            /\ UNCHANGED <<current_batch, batch_src, batch_chars, batch_lines,
                           in_code_block, sent, sink>>
            /\ IF in_code_block
               THEN result' = Append(result, lines[i])
               ELSE result' = result
      ]_vars

\* Two translatable lines with only a blank line between them are pending in
\* the same batch.
C18_Witness ==
    /\ pc = "loop"
    /\ Len(batch_src) >= 2
    /\ batch_src[2] = batch_src[1] + 2
    /\ Strip(lines[batch_src[1] + 1]) = <<>>
    /\ ~ seen_in_code[batch_src[1] + 1]
    /\ Len(current_batch) = Len(batch_src)

\* --------------------------------------------------------------------- C19
\* Line j of the document is translatable: outside a fence, not blank once
\* stripped, and not starting with "#", "[" or "!".
TranslatableInDoc(j) == ~ InsideFence(j) /\ ~ IsBlank(j) /\ ~ HasPrefix(j)

\* The stripped translatable lines among the first n lines, in document order.
RECURSIVE StrippedTranslatable(_)
StrippedTranslatable(n) ==
    IF n = 0 THEN <<>>
    ELSE StrippedTranslatable(n - 1)
         \o (IF TranslatableInDoc(n) THEN <<Strip(lines[n])>> ELSE <<>>)

\* The batches passed to translate_batch, one after the other.
RECURSIVE Flatten(_)
Flatten(batches) ==
    IF batches = <<>> THEN <<>> ELSE Head(batches) \o Flatten(Tail(batches))

\* The pending batch, unless it is the one translate_batch is working on.
NotYetSent == IF pc \in {"call", "ret", "abort"} THEN <<>> ELSE current_batch

\* C19: in every state the batches passed to translate_batch so far, in call
\* order, followed by the pending batch, are the stripped translatable lines
\* among the lines handled so far, in document order; no batch passed is
\* empty; and when the output is written nothing is pending, so the batches
\* passed are the stripped translatable lines of the whole document.
C19_SubmittedOnce ==
    LET passed == Flatten(sent)
    IN  /\ passed \o NotYetSent = StrippedTranslatable(i - 1)
        /\ \A b \in 1..Len(sent) : sent[b] # <<>>
        /\ (pc = "done" /\ written) =>
              /\ current_batch = <<>>
              /\ i = Len(lines) + 1
              /\ passed = StrippedTranslatable(Len(lines))

\* The output is written after three batches: one closed by the size check,
\* one by a structural line and one by the end of the document.
C19_Witness ==
    /\ pc = "done"
    /\ written
    /\ Len(sent) = 3
    /\ Len(lines) = 4
    /\ Len(Flatten(sent)) = 3
    /\ \E j \in 1..Len(lines) : HasPrefix(j)

====
